---- MODULE Spec2Model ----
(***************************************************************************)
(* A model of mindlogger-app-backend's response routes                     *)
(* (girder/api/v1/response.py) and of its JSON-LD utility                  *)
(* (girderformindlogger/utility/jsonld_expander.py).                       *)
(*                                                                         *)
(* Python strings whose characters matter (substring tests, splitting,     *)
(* case conversion) are sequences of one-character strings.                *)
(***************************************************************************)
EXTENDS Integers, Sequences, FiniteSets, TLC

VARIABLES
    folders,    \* the folder collection of the document store
    items,      \* the item collection of the document store
    nextId,     \* the next document id the store hands out
    calls,      \* number of route calls made
    created,    \* number of createResponseItem calls that returned an item
    last,       \* the last route call: its inputs, the store before it, its outcome
    caseIn,     \* case conversion: the identifier given to snake_case
    caseSnake,  \* case conversion: snake_case(caseIn)
    caseOut,    \* case conversion: camelCase(caseSnake)
    casePc,     \* case conversion: "snake", "camel" or "done"
    langObj,    \* getByLanguage: the dict, as its (key, value) pairs in insertion order
    langArg,    \* getByLanguage: the language tag
    langOut,    \* getByLanguage: the value returned
    langPc,     \* getByLanguage: "call" or "done"
    ctxIn,      \* contextualize: the object given
    ctxOut,     \* contextualize: the object returned
    ctxPc,      \* contextualize: "call" or "done"
    exObj,      \* expand: the object given, as it is now (expand assigns its "@context")
    exEnv,      \* expand: the context URLs that cannot be loaded; whether the JSON-LD is illegal
    exOut,      \* expand: what the call returned, or that it raised
    exPc,       \* expand: "call" or "done"
    fDb,        \* formatLdObject: the document as the database holds it
    fDoc,       \* formatLdObject: the document in memory, the obj of the call
    fArgs,      \* formatLdObject: the arguments of the call
    fRefresh,   \* formatLdObject: refreshCache of the running attempt
    fPc,        \* formatLdObject: "idle", "body", "except" or "done"
    fLog,       \* formatLdObject: what the call has done so far, and what it returned
    fCalls,     \* formatLdObject: number of calls made
    impGraph,   \* activitySet import: the order list of the activitySet and of each component
    impBroken,  \* activitySet import: the components whose import fails
    impSet,     \* activitySet import: the local variable activitySet
    impLoop,    \* activitySet import: newActivities, newItems, activitiesNow, and the rest of the running for loop
    impDone,    \* activitySet import: the components that componentImport calls have returned
    impPc       \* activitySet import: position in the activitySet branch

storeVars == <<folders, items, nextId, calls, created, last>>

caseVars == <<caseIn, caseSnake, caseOut, casePc>>

langVars == <<langObj, langArg, langOut, langPc>>

ctxVars == <<ctxIn, ctxOut, ctxPc>>

exVars == <<exObj, exEnv, exOut, exPc>>

fmtVars == <<fDb, fDoc, fArgs, fRefresh, fPc, fLog, fCalls>>

impVars == <<impGraph, impBroken, impSet, impLoop, impDone, impPc>>

vars == <<storeVars, caseVars, langVars, ctxVars, exVars, fmtVars, impVars>>

-----------------------------------------------------------------------------
(* Bounds *)

MaxCalls == 2

\* the longest identifier given to snake_case
MaxIdLen == 4

\* the most keys of a dict given to getByLanguage
MaxLangKeys == 3

\* the most formatLdObject calls made on the document
MaxFormatCalls == 2

-----------------------------------------------------------------------------
(* Strings *)

IsSubstring(sub, s) ==
    \E i \in 0..(Len(s) - Len(sub)) : SubSeq(s, i + 1, i + Len(sub)) = sub

Range(q) == {q[i] : i \in 1..Len(q)}

StartsWith(s, p) == Len(p) <= Len(s) /\ SubSeq(s, 1, Len(p)) = p

K_id == <<"@", "i", "d">>
K_prefLabel == <<"s", "k", "o", "s", ":", "p", "r", "e", "f", "L", "a", "b", "e", "l">>
K_name == <<"n", "a", "m", "e">>

UnknownApplet == <<"[Unknown Applet]">>
UnknownActivity == <<"[Unknown Activity]">>
ResponsesName == <<"Responses">>

\* str(_id) of a document with numeric id n
Digit(n) == <<"0", "1", "2", "3", "4", "5", "6", "7", "8", "9">>[n + 1]
IdStr(n) == <<Digit((n \div 10) % 10), Digit(n % 10)>>

-----------------------------------------------------------------------------
(* JSON values met in metadata: an object (a dict) or a string *)

NoDict == [k \in {} |-> <<>>]

Obj(d) == [type |-> "dict", d |-> d, s |-> <<>>]
Str(s) == [type |-> "str", d |-> NoDict, s |-> s]

\* Python's  key in v : key membership for a dict, substring for a str
In(key, v) == IF v.type = "dict" THEN key \in DOMAIN v.d ELSE IsSubstring(key, v.s)

\* Python's  v[key] : the entry of a dict; a str indexed by a str raises TypeError
Index(v, key) ==
    IF v.type = "dict" THEN [raised |-> FALSE, val |-> v.d[key]]
    ELSE [raised |-> TRUE, val |-> <<>>]

Returned(x) == [raised |-> FALSE, val |-> x]

-----------------------------------------------------------------------------
(* The document store: users, folders, items (the framework's models) *)

\* Users are documents of the store too: ids 1 and 2
Users == {1, 2}

None == <<"<None>">>

NoMeta == [k \in {} |-> Str(<<>>)]

ChildFolders(fs, parentType, parent) ==
    {f \in fs : f.parentType = parentType /\ f.parent = parent}

ChildItems(its, folderId) == {i \in its : i.folder = folderId}

\* Folder().createFolder: with reuseExisting the folder of that parent and name is
\* returned when there is one; otherwise a new folder is stored.
createFolder(fs, nid, parentType, parent, name, creator, reuseExisting) ==
    LET same == {f \in ChildFolders(fs, parentType, parent) : f.name = name} IN
    IF reuseExisting /\ same # {}
    THEN [folders |-> fs, nextId |-> nid, id |-> (CHOOSE f \in same : TRUE).id]
    ELSE [folders |-> fs \cup {[id |-> nid, parentType |-> parentType,
                                parent |-> parent, name |-> name,
                                creator |-> creator, meta |-> NoMeta]},
          nextId |-> nid + 1, id |-> nid]

\* Item().createItem with reuseExisting=False, then setMetadata: a new item each call
createItem(its, nid, folderId, name, creator, description, metadata) ==
    [items |-> its \cup {[id |-> nid, folder |-> folderId, name |-> name,
                          creator |-> creator, description |-> description,
                          meta |-> metadata]},
     nextId |-> nid + 1, id |-> nid]

-----------------------------------------------------------------------------
(* createResponseItem *)

\* The conditional chain that picks a label out of metadata[field]
LabelChain(metadata, field, unknown) ==
    LET has == field \in DOMAIN metadata
        v == metadata[field]
    IN  IF has /\ In(K_id, v) THEN Index(v, K_id)
        ELSE IF has /\ In(K_prefLabel, v) THEN Index(v, K_prefLabel)
        ELSE IF has /\ In(K_name, v) THEN Index(v, K_name)
        ELSE IF has /\ v.type = "str" THEN Returned(v.s)
        ELSE Returned(unknown)

AppletFolderName(metadata) == LabelChain(metadata, "applet", UnknownApplet)

ActivityLabel(metadata) == LabelChain(metadata, "activity", UnknownActivity)

SubjectOf(informant, subject_id) ==
    IF subject_id # None THEN subject_id ELSE IdStr(informant)

TimeStamp(t) == <<"stamp", t>>

Description(label, t) == label \o <<" response on ", t, " at ", t>>

ReuseAppletFolder == TRUE

ReuseSubjectFolder_omitted == FALSE

ReuseSubjectFolder == TRUE

\* The whole handler, on store (fs, its, nid): the store after it and what it returns.
\* An exception leaves what the earlier statements stored.
CreateResponseItem(fs, its, nid, informant, subject_id, metadata, t) ==
    LET subject == SubjectOf(informant, subject_id)
        r1 == createFolder(fs, nid, "user", informant, ResponsesName, informant, TRUE)
        an == AppletFolderName(metadata)
        r2 == createFolder(r1.folders, r1.nextId, "folder", r1.id, an.val,
                           informant, ReuseAppletFolder)
        r3 == createFolder(r2.folders, r2.nextId, "folder", r2.id, subject,
                           informant, ReuseSubjectFolder)
        al == ActivityLabel(metadata)
        r4 == createItem(its, r3.nextId, r3.id, TimeStamp(t), informant,
                         Description(al.val, t), metadata)
    IN  IF an.raised
        THEN [folders |-> r1.folders, items |-> its, nextId |-> r1.nextId,
              raised |-> TRUE, item |-> 0]
        ELSE IF al.raised
        THEN [folders |-> r3.folders, items |-> its, nextId |-> r3.nextId,
              raised |-> TRUE, item |-> 0]
        ELSE [folders |-> r3.folders, items |-> r4.items, nextId |-> r4.nextId,
              raised |-> FALSE, item |-> r4.id]

-----------------------------------------------------------------------------
(* getResponses *)

RECURSIVE SeqOfIds(_)
SeqOfIds(S) ==
    IF S = {} THEN <<>>
    ELSE LET m == CHOOSE x \in S : \A y \in S : x <= y IN <<m>> \o SeqOfIds(S \ {m})

\* list(Folder().childItems(folder)): the ids of the folder's items
ItemList(its, folderId) == SeqOfIds({i.id : i \in ChildItems(its, folderId)})

RECURSIVE SubjectItems(_, _)
SubjectItems(its, subjectFolders) ==
    IF subjectFolders = <<>> THEN <<>>
    ELSE ItemList(its, Head(subjectFolders)) \o SubjectItems(its, Tail(subjectFolders))

\* The test of the elif: 'meta' in f and 'applet' in f['meta'] and
\* f['meta']['applet']['@id'] == appletId. A meta.applet that is a string, or an
\* object without "@id", raises.
IdMatch(f, appletId) ==
    IF "applet" \notin DOMAIN f.meta THEN [raised |-> FALSE, val |-> FALSE]
    ELSE LET a == f.meta["applet"] IN
         IF a.type = "dict" /\ K_id \in DOMAIN a.d
         THEN [raised |-> FALSE, val |-> (a.d[K_id] = appletId)]
         ELSE [raised |-> TRUE, val |-> FALSE]

NoResponses == [raised |-> FALSE, hasKey |-> FALSE, list |-> <<>>]

\* One pass of the for loop over the child folders of the Responses folder, in the
\* order they are enumerated
RECURSIVE Enumerate(_, _, _, _, _, _, _)
Enumerate(fs, its, appletId, appletName, unreadable, order, acc) ==
    IF order = <<>> \/ acc.raised THEN acc
    ELSE LET f == CHOOSE g \in fs : g.id = Head(order)
             m == IdMatch(f, appletId)
             step ==
                IF f.name = appletName
                THEN [raised |-> FALSE, hasKey |-> TRUE, list |-> ItemList(its, f.id)]
                ELSE IF m.raised THEN [acc EXCEPT !.raised = TRUE]
                ELSE IF m.val
                THEN IF f.id \in unreadable
                     THEN [raised |-> TRUE, hasKey |-> TRUE, list |-> <<>>]
                     ELSE [raised |-> FALSE, hasKey |-> TRUE,
                           list |-> SubjectItems(its,
                                      SeqOfIds({g.id : g \in ChildFolders(fs, "folder", f.id)}))]
                ELSE acc
         IN Enumerate(fs, its, appletId, appletName, unreadable, Tail(order), step)

\* A variant that makes the Responses folder as soon as the user is loaded
GetResponses_createFirst(fs, its, nid, userId, appletId, order, unreadable) ==
    LET applets == {f \in fs : IdStr(f.id) = appletId}
        r1 == createFolder(fs, nid, "user", userId, ResponsesName, userId, TRUE)
        res == Enumerate(fs, its, appletId, (CHOOSE f \in applets : TRUE).name,
                         unreadable, order, NoResponses)
    IN  IF userId \notin Users
        THEN [folders |-> fs, nextId |-> nid, raised |-> TRUE,
              hasKey |-> FALSE, list |-> <<>>]
        ELSE IF applets = {}
        THEN [folders |-> r1.folders, nextId |-> r1.nextId, raised |-> TRUE,
              hasKey |-> FALSE, list |-> <<>>]
        ELSE [folders |-> r1.folders, nextId |-> r1.nextId, raised |-> res.raised,
              hasKey |-> res.hasKey /\ ~res.raised,
              list |-> IF res.raised THEN <<>> ELSE res.list]

\* The whole handler: the store after it and what it returns
GetResponses(fs, its, nid, userId, appletId, order, unreadable) ==
    LET applets == {f \in fs : IdStr(f.id) = appletId}
        r1 == createFolder(fs, nid, "user", userId, ResponsesName, userId, TRUE)
        res == Enumerate(fs, its, appletId, (CHOOSE f \in applets : TRUE).name,
                         unreadable, order, NoResponses)
    IN  IF userId \notin Users \/ applets = {}
        THEN [folders |-> fs, nextId |-> nid, raised |-> TRUE,
              hasKey |-> FALSE, list |-> <<>>]
        ELSE [folders |-> r1.folders, nextId |-> r1.nextId, raised |-> res.raised,
              hasKey |-> res.hasKey /\ ~res.raised,
              list |-> IF res.raised THEN <<>> ELSE res.list]

\* The orders in which the children of folder p can be enumerated
Orders(fs, parentType, p) ==
    LET ids == {f.id : f \in ChildFolders(fs, parentType, p)}
        n == Cardinality(ids)
    IN  {o \in [1..n -> ids] : \A i, j \in 1..n : i # j => o[i] # o[j]}

ResponsesFolderOf(fs, userId) ==
    {f \in ChildFolders(fs, "user", userId) : f.name = ResponsesName}

-----------------------------------------------------------------------------
(* The store the routes start from, and their inputs *)

AppName == <<"A", "p", "p">>
AppletDocId == 3
AppletId == IdStr(AppletDocId)

Folder(id, parentType, parent, name, creator, meta) ==
    [id |-> id, parentType |-> parentType, parent |-> parent, name |-> name,
     creator |-> creator, meta |-> meta]

Item(id, folder, name, creator, description, meta) ==
    [id |-> id, folder |-> folder, name |-> name, creator |-> creator,
     description |-> description, meta |-> meta]

AppletFolder == Folder(AppletDocId, "collection", 0, AppName, 1, NoMeta)
Responses1 == Folder(4, "user", 1, ResponsesName, 1, NoMeta)
\* old schema: a folder named like the applet, holding the items itself
LegacyFolder == Folder(5, "folder", 4, AppName, 1, NoMeta)
LegacyItem == Item(8, 5, TimeStamp("d0"), 1, Description(<<"S">>, "d0"), NoMeta)
\* new schema: a folder whose meta.applet.@id is the applet's id, with subject folders
IdFolder ==
    Folder(6, "folder", 4, <<"X">>, 1, [k \in {"applet"} |-> Obj([j \in {K_id} |-> AppletId])])
SubjectFolder == Folder(7, "folder", 6, IdStr(1), 1, NoMeta)
SubjectItem == Item(9, 7, TimeStamp("d0"), 1, Description(<<"S">>, "d0"), NoMeta)
\* a folder whose meta.applet is a bare string
StringMetaFolder ==
    Folder(10, "folder", 4, <<"Y">>, 1, [k \in {"applet"} |-> Str(AppletId)])

FirstFreeId == 11

Seeds ==
    { [folders |-> {AppletFolder}, items |-> {}],
      [folders |-> {AppletFolder, Responses1, LegacyFolder, IdFolder, SubjectFolder},
       items |-> {LegacyItem, SubjectItem}],
      [folders |-> {AppletFolder, Responses1, IdFolder, SubjectFolder, StringMetaFolder},
       items |-> {SubjectItem}] }

AppletValues ==
    { Obj([j \in {K_id} |-> AppletId]), Obj([j \in {K_prefLabel} |-> AppName]),
      Str(<<"n", "a", "m", "e", "s">>) }

ActivityValues ==
    { Obj([j \in {K_name} |-> <<"S", "v">>]), Str(<<"S", "v">>), Str(<<"@", "i", "d", "s">>) }

Metadatas ==
    UNION { [D -> AppletValues \cup ActivityValues] : D \in SUBSET {"applet", "activity"} }

MetadataInputs ==
    {m \in Metadatas :
        /\ "applet" \in DOMAIN m => m["applet"] \in AppletValues
        /\ "activity" \in DOMAIN m => m["activity"] \in ActivityValues}

\* (caller, subject_id): the caller's own responses, or responses about user 2
CallerInputs == {<<1, None>>, <<1, IdStr(2)>>, <<2, None>>}

Times == {"d1"}

NoCall ==
    [op |-> "none", user |-> 0, subject_id |-> None, metadata |-> NoMeta,
     appletId |-> <<>>, foldersBefore |-> {}, itemsBefore |-> {},
     raised |-> FALSE, item |-> 0, hasKey |-> FALSE, list |-> <<>>]

StoreIdle ==
    /\ folders = {}
    /\ items = {}
    /\ nextId = FirstFreeId
    /\ calls = 0
    /\ created = 0
    /\ last = NoCall

StoreInit ==
    /\ \E s \in Seeds : folders = s.folders /\ items = s.items
    /\ nextId = FirstFreeId
    /\ calls = 0
    /\ created = 0
    /\ last = NoCall

-----------------------------------------------------------------------------
(* camelCase and snake_case *)

LowerChars == {"a", "b"}
UpperChars == {"A", "B"}
DigitChars == {"1"}

Lower(c) ==
    CASE c = "A" -> "a" [] c = "B" -> "b" [] c = "E" -> "e" [] c = "N" -> "n"
      [] c = "S" -> "s" [] OTHER -> c
Upper(c) ==
    CASE c = "a" -> "A" [] c = "b" -> "B" [] c = "e" -> "E" [] c = "n" -> "N"
      [] c = "s" -> "S" [] OTHER -> c

\* str.lower()
LowerStr(s) == [i \in 1..Len(s) |-> Lower(s[i])]

\* the end of the run [a-z]+ that starts at position i (i - 1 when there is none)
RECURSIVE LowerRunEnd(_, _)
LowerRunEnd(s, i) ==
    IF i <= Len(s) /\ s[i] \in LowerChars THEN LowerRunEnd(s, i + 1) ELSE i - 1

\* first_cap_re.sub(r'\1_\2', s) from position i: '(.)([A-Z][a-z]+)', leftmost
\* matches, not overlapping
RECURSIVE FirstCapSub(_, _)
FirstCapSub(s, i) ==
    IF i > Len(s) THEN <<>>
    ELSE IF i + 2 <= Len(s) /\ s[i + 1] \in UpperChars /\ s[i + 2] \in LowerChars
    THEN LET e == LowerRunEnd(s, i + 2) IN
         <<s[i], "_">> \o SubSeq(s, i + 1, e) \o FirstCapSub(s, e + 1)
    ELSE <<s[i]>> \o FirstCapSub(s, i + 1)

\* all_cap_re.sub(r'\1_\2', s) from position i: '([a-z0-9])([A-Z])'
RECURSIVE AllCapSub(_, _)
AllCapSub(s, i) ==
    IF i > Len(s) THEN <<>>
    ELSE IF i + 1 <= Len(s) /\ s[i] \in LowerChars \cup DigitChars
            /\ s[i + 1] \in UpperChars
    THEN <<s[i], "_", s[i + 1]>> \o AllCapSub(s, i + 2)
    ELSE <<s[i]>> \o AllCapSub(s, i + 1)

\* a variant without the second pass
snake_case_onePass(s) == LowerStr(FirstCapSub(s, 1))

snake_case(s) == LowerStr(AllCapSub(FirstCapSub(s, 1), 1))

\* s.split('_') from position i, the word being read in cur
RECURSIVE SplitUnderscore(_, _, _)
SplitUnderscore(s, i, cur) ==
    IF i > Len(s) THEN <<cur>>
    ELSE IF s[i] = "_" THEN <<cur>> \o SplitUnderscore(s, i + 1, <<>>)
    ELSE SplitUnderscore(s, i + 1, Append(cur, s[i]))

IsLetter(c) == c \in LowerChars \cup UpperChars

\* str.title(): a letter that follows no letter is upper-cased, any other lower-cased
Title(w) ==
    [i \in 1..Len(w) |->
        IF i = 1 \/ ~IsLetter(w[i - 1]) THEN Upper(w[i]) ELSE Lower(w[i])]

RECURSIVE JoinTitled(_)
JoinTitled(words) ==
    IF words = <<>> THEN <<>> ELSE Title(Head(words)) \o JoinTitled(Tail(words))

camelCase(s) ==
    LET words == SplitUnderscore(s, 1, <<>>) IN Head(words) \o JoinTitled(Tail(words))

CaseAlphabet == LowerChars \cup UpperChars \cup DigitChars

Identifiers == UNION {[1..n -> CaseAlphabet] : n \in 1..MaxIdLen}

CaseIdle ==
    /\ caseIn = <<>>
    /\ caseSnake = <<>>
    /\ caseOut = <<>>
    /\ casePc = "idle"

CaseInit ==
    /\ caseIn \in Identifiers
    /\ caseSnake = <<>>
    /\ caseOut = <<>>
    /\ casePc = "snake"

ToSnake ==
    /\ casePc = "snake"
    /\ caseSnake' = snake_case(caseIn)
    /\ casePc' = "camel"
    /\ UNCHANGED <<caseIn, caseOut, storeVars, langVars, ctxVars, exVars, fmtVars, impVars>>

ToCamel ==
    /\ casePc = "camel"
    /\ caseOut' = camelCase(caseSnake)
    /\ casePc' = "done"
    /\ UNCHANGED <<caseIn, caseSnake, storeVars, langVars, ctxVars, exVars, fmtVars, impVars>>

\* a camelCase identifier: letters only, the first one lower case
IsCamelCase(x) ==
    /\ Len(x) >= 1
    /\ x[1] \in LowerChars
    /\ \A i \in 1..Len(x) : IsLetter(x[i])

HasCapitalRun(x) == \E i \in 1..(Len(x) - 1) : x[i] \in UpperChars /\ x[i + 1] \in UpperChars

-----------------------------------------------------------------------------
(* getByLanguage, getFromLongestMatchingKey, getMoreGeneric *)

Contains(s, c) == \E i \in 1..Len(s) : s[i] = c

LastIndexOf(s, c) == CHOOSE i \in 1..Len(s) : s[i] = c /\ \A j \in (i + 1)..Len(s) : s[j] # c

\* a variant that never generalises the tag
getMoreGeneric_tagOnly(langTag) == <<langTag>>

\* the tag, then the tag cut before its last '-', and so on while a '-' is left
RECURSIVE getMoreGeneric(_)
getMoreGeneric(langTag) ==
    IF Contains(langTag, "-")
    THEN <<langTag>> \o getMoreGeneric(SubSeq(langTag, 1, LastIndexOf(langTag, "-") - 1))
    ELSE <<langTag>>

\* x put into a list sorted by falling length, behind the entries at least as long
RECURSIVE InsertByLen(_, _)
InsertByLen(x, sorted) ==
    IF sorted = <<>> THEN <<x>>
    ELSE IF Len(Head(sorted)) >= Len(x) THEN <<Head(sorted)>> \o InsertByLen(x, Tail(sorted))
    ELSE <<x>> \o sorted

\* list.sort(key=len, reverse=True): stable
RECURSIVE SortByLenDesc(_, _)
SortByLenDesc(list, sorted) ==
    IF list = <<>> THEN sorted
    ELSE SortByLenDesc(Tail(list), InsertByLen(Head(list), sorted))

\* {k.lower(): v for k, v in object.items()}[key]: the last pair whose lowered key
\* is key
RECURSIVE LowerKeyFind(_, _, _)
LowerKeyFind(pairs, key, found) ==
    IF pairs = <<>> THEN found
    ELSE LowerKeyFind(Tail(pairs), key,
                      IF LowerStr(Head(pairs)[1]) = key
                      THEN [has |-> TRUE, val |-> Head(pairs)[2]] ELSE found)

NotFound == [has |-> FALSE, val |-> None]

\* max(listOfKeys, key=len): the first of the longest
RECURSIVE FirstLongest(_, _)
FirstLongest(list, best) ==
    IF list = <<>> THEN best
    ELSE FirstLongest(Tail(list), IF Len(Head(list)) > Len(best) THEN Head(list) ELSE best)

\* list.remove(key): without the first occurrence of key
RECURSIVE RemoveFirst(_, _)
RemoveFirst(list, key) ==
    IF list = <<>> THEN <<>>
    ELSE IF Head(list) = key THEN Tail(list)
    ELSE <<Head(list)>> \o RemoveFirst(Tail(list), key)

RECURSIVE getFromLongestMatchingKey(_, _)
getFromLongestMatchingKey(pairs, listOfKeys) ==
    LET keys == [i \in 1..Len(listOfKeys) |-> LowerStr(listOfKeys[i])] IN
    IF keys = <<>> THEN None
    ELSE LET key == FirstLongest(Tail(keys), Head(keys))
             got == LowerKeyFind(pairs, key, NotFound)
         IN  IF key = <<>> THEN None
             ELSE IF got.has THEN got.val
             ELSE getFromLongestMatchingKey(pairs, RemoveFirst(keys, key))

\* getByLanguage for a dict object and a non-empty str tag
getByLanguage(pairs, tag) ==
    LET generic == getMoreGeneric(tag)
        tags == generic \o [i \in 1..Len(generic) |-> <<"@">> \o generic[i]]
    IN  getFromLongestMatchingKey(pairs, SortByLenDesc(tags, <<>>))

T_en == <<"e", "n">>
T_en_us == <<"e", "n", "-", "u", "s">>
T_en_gb == <<"e", "n", "-", "g", "b">>
T_fr == <<"f", "r">>
T_de == <<"d", "e">>

LangKeys == {T_en_us, T_en, T_fr, <<"@">> \o T_en, <<"E", "N">>, <<"@">> \o T_en_us}

LangTags == {T_en_us, T_en_gb, T_de, <<"E", "N", "-", "u", "s">>, T_en_us \o <<"-", "x">>}

\* the value stored under key k
LangValue(k) == <<"value of ">> \o k

LangObjects ==
    UNION { {[i \in 1..n |-> <<ks[i], LangValue(ks[i])>>] :
                ks \in {q \in [1..n -> LangKeys] : \A i, j \in 1..n : i # j => q[i] # q[j]}}
            : n \in 0..MaxLangKeys }

LangIdle ==
    /\ langObj = <<>>
    /\ langArg = <<>>
    /\ langOut = None
    /\ langPc = "idle"

LangInit ==
    /\ langObj \in LangObjects
    /\ langArg \in LangTags
    /\ langOut = None
    /\ langPc = "call"

GetByLanguage ==
    /\ langPc = "call"
    /\ langOut' = getByLanguage(langObj, langArg)
    /\ langPc' = "done"
    /\ UNCHANGED <<langObj, langArg, storeVars, caseVars, ctxVars, exVars, fmtVars, impVars>>

\* the tag and its more generic forms: the tag cut before any of its '-'
TagForms(tag) ==
    {tag} \cup {SubSeq(tag, 1, i - 1) : i \in {j \in 1..Len(tag) : tag[j] = "-"}}

\* the keys of the dict that are form f, plain or '@'-prefixed, whatever the case
KeysForForm(pairs, f) ==
    {i \in 1..Len(pairs) :
        LowerStr(pairs[i][1]) \in {LowerStr(f), <<"@">> \o LowerStr(f)}}

PresentForms(pairs, tag) == {f \in TagForms(tag) : KeysForForm(pairs, f) # {}}

MostSpecificKeyReturned ==
    langPc = "done" =>
        LET present == PresentForms(langObj, langArg) IN
        IF present = {} THEN langOut = None
        ELSE LET best == CHOOSE f \in present : \A g \in present : Len(g) <= Len(f)
             IN  \E i \in KeysForForm(langObj, best) : langOut = langObj[i][2]

\* the examples: "Hello" for "en-us", "Hi" for "en-gb", None for "de"
LanguageExamples ==
    /\ getByLanguage(<<<<T_en_us, <<"Hello">>>>, <<T_en, <<"Hi">>>>, <<T_fr, <<"Bonjour">>>>>>,
                     T_en_us) = <<"Hello">>
    /\ getByLanguage(<<<<T_en_us, <<"Hello">>>>, <<T_en, <<"Hi">>>>, <<T_fr, <<"Bonjour">>>>>>,
                     T_en_gb) = <<"Hi">>
    /\ getByLanguage(<<<<T_en_us, <<"Hello">>>>, <<T_en, <<"Hi">>>>, <<T_fr, <<"Bonjour">>>>>>,
                     T_de) = None

\* C7: getByLanguage returns the value stored under the most specific candidate key
\* that is a key of the dict, and None when no candidate is a key; so
\* {"en-us": "Hello", "en": "Hi", "fr": "Bonjour"} gives "Hello" for "en-us", "Hi"
\* for "en-gb" and None for "de".
C7_MostSpecificKey == MostSpecificKeyReturned /\ LanguageExamples

\* a fallback to the more generic key although a less specific and an unrelated
\* key are there too
C7_FellBackToGeneric ==
    /\ langPc = "done"
    /\ langArg = T_en_gb
    /\ langObj = <<<<T_en_us, LangValue(T_en_us)>>, <<T_en, LangValue(T_en)>>,
                   <<T_fr, LangValue(T_fr)>>>>
    /\ langOut = LangValue(T_en)

-----------------------------------------------------------------------------
(* contextualize, _deeperContextualize, _createContextForStr *)

\* s.split(c) from position i, the piece being read in cur
RECURSIVE SplitOn(_, _, _, _)
SplitOn(s, c, i, cur) ==
    IF i > Len(s) THEN <<cur>>
    ELSE IF s[i] = c THEN <<cur>> \o SplitOn(s, c, i + 1, <<>>)
    ELSE SplitOn(s, c, i + 1, Append(cur, s[i]))

\* sep.join(pieces)
RECURSIVE JoinWith(_, _)
JoinWith(pieces, sep) ==
    IF pieces = <<>> THEN <<>>
    ELSE IF Len(pieces) = 1 THEN Head(pieces)
    ELSE Head(pieces) \o <<sep>> \o JoinWith(Tail(pieces), sep)

\* s.replace(c, '')
RECURSIVE Without(_, _)
Without(s, c) ==
    IF s = <<>> THEN <<>>
    ELSE IF Head(s) = c THEN Without(Tail(s), c)
    ELSE <<Head(s)>> \o Without(Tail(s), c)

AllButLast(q) == SubSeq(q, 1, Len(q) - 1)

\* the context entry {term: iri} and the new key for key s
createContextForStr(s) ==
    LET sp == SplitOn(s, "/", 1, <<>>)
        lastHasDot == Contains(sp[Len(sp)], ".")
        k == Without(Without(JoinWith(IF lastHasDot THEN sp ELSE AllButLast(sp), "_"),
                             "."), ":")
    IN  IF ~lastHasDot
        THEN [c |-> [term |-> k, iri |-> JoinWith(AllButLast(sp), "/") \o <<"/">>],
              o |-> k \o <<":">> \o sp[Len(sp)]]
        ELSE [c |-> [term |-> k, iri |-> s], o |-> k]

\* JSON values: a dict (its keys mapped to values) or anything else
Leaf == [t |-> "leaf", d |-> NoDict]
Dict(d) == [t |-> "dict", d |-> d]
IsDict(v) == v.t = "dict"

IsDotted(k) == Contains(k, ".")

\* the for loop of _deeperContextualize over the keys not yet visited
RECURSIVE deeperLoop(_, _, _, _)
deeperLoop(ldObj, todo, context, newObj) ==
    IF todo = {} THEN [context |-> context, obj |-> Dict(newObj)]
    ELSE LET k == CHOOSE x \in todo : TRUE
             co == createContextForStr(k)
         IN  IF IsDict(ldObj.d[k]) /\ IsDotted(k)
             THEN deeperLoop(ldObj, todo \ {k},
                             IF co.c \in Range(context) THEN context
                             ELSE Append(context, co.c),
                             [j \in DOMAIN newObj \cup {co.o} |->
                                 IF j = co.o THEN ldObj.d[k] ELSE newObj[j]])
             ELSE deeperLoop(ldObj, todo \ {k}, context,
                             [j \in DOMAIN newObj \cup {k} |->
                                 IF j = k THEN ldObj.d[k] ELSE newObj[j]])

deeperContextualize(ldObj, context) == deeperLoop(ldObj, DOMAIN ldObj.d, context, NoDict)

\* the for loop of contextualize over the keys not yet visited
RECURSIVE contextualizeLoop(_, _, _, _)
contextualizeLoop(ldObj, todo, context, newObj) ==
    IF todo = {} THEN [context |-> context, d |-> newObj]
    ELSE LET k == CHOOSE x \in todo : TRUE
             r == deeperContextualize(ldObj.d[k], context)
         IN  IF IsDict(ldObj.d[k])
             THEN contextualizeLoop(ldObj, todo \ {k}, r.context,
                                    [j \in DOMAIN newObj \cup {k} |->
                                        IF j = k THEN r.obj ELSE newObj[j]])
             ELSE contextualizeLoop(ldObj, todo \ {k}, context,
                                    [j \in DOMAIN newObj \cup {k} |->
                                        IF j = k THEN ldObj.d[k] ELSE newObj[j]])

\* an object is its '@context' list (hasContext: whether the key is there) and its
\* other entries d
contextualize(ldObj) ==
    LET r == contextualizeLoop(ldObj, DOMAIN ldObj.d,
                               IF ldObj.hasContext THEN ldObj.context ELSE <<>>, NoDict)
    IN  [hasContext |-> TRUE, context |-> r.context, d |-> r.d]

Key_ab == <<"a", ".", "b">>
Key_ho_t == <<"h", ".", "o", "/", "t">>
Key_q == <<"q">>
Key_cd == <<"c", ".", "d">>
Key_p == <<"p">>
Key_tu == <<"t", ".", "u">>

DictsOver(keys, values) == UNION {{Dict(f) : f \in [S -> values]} : S \in SUBSET keys}

\* what lies below a key of a nested dict
Level3Dicts == DictsOver({Key_cd}, {Leaf, Dict(NoDict)})

Level2Dicts ==
    {Dict(f) : f \in UNION {[S -> {Leaf} \cup Level3Dicts] : S \in SUBSET {Key_ab, Key_ho_t, Key_q}}}

Level2Inputs == {v \in Level2Dicts : Key_q \in DOMAIN v.d => v.d[Key_q] = Leaf}

ContextInputs ==
    { [hasContext |-> FALSE, context |-> <<>>],
      [hasContext |-> TRUE, context |-> <<>>],
      [hasContext |-> TRUE, context |-> <<createContextForStr(Key_ab).c>>],
      [hasContext |-> TRUE, context |-> <<[term |-> <<"x">>, iri |-> <<"x", "/">>]>>] }

CtxInputs ==
    {[hasContext |-> c.hasContext, context |-> c.context, d |-> f] :
        c \in ContextInputs,
        f \in UNION {[S -> {Leaf} \cup Level2Inputs] : S \in SUBSET {Key_p, Key_tu}}}

NoObject == [hasContext |-> FALSE, context |-> <<>>, d |-> NoDict]

CtxIdle ==
    /\ ctxIn = NoObject
    /\ ctxOut = NoObject
    /\ ctxPc = "idle"

CtxInit ==
    /\ ctxIn \in CtxInputs
    /\ ctxOut = NoObject
    /\ ctxPc = "call"

Contextualize ==
    /\ ctxPc = "call"
    /\ ctxOut' = contextualize(ctxIn)
    /\ ctxPc' = "done"
    /\ UNCHANGED <<ctxIn, storeVars, caseVars, langVars, exVars, fmtVars, impVars>>

\* the dotted keys of dict-valued entries in v, at any depth
RECURSIVE DottedDictKeys(_)
DottedDictKeys(v) ==
    IF ~IsDict(v) THEN {}
    ELSE {k \in DOMAIN v.d : IsDotted(k) /\ IsDict(v.d[k])}
            \cup UNION {DottedDictKeys(v.d[k]) : k \in DOMAIN v.d}

\* the same below the top level of object obj
NestedDottedDictKeys(obj) == UNION {DottedDictKeys(obj.d[k]) : k \in DOMAIN obj.d}

\* C8: when the input has dict-valued entries keyed by dotted strings below its top
\* level, at any depth, the output has none below its top level and its @context
\* holds, for each such key, an entry whose IRI is a prefix of the key.
C8_NoNestedDottedKey ==
    (ctxPc = "done" /\ NestedDottedDictKeys(ctxIn) # {}) =>
        /\ NestedDottedDictKeys(ctxOut) = {}
        /\ \A k \in NestedDottedDictKeys(ctxIn) :
              \E i \in 1..Len(ctxOut.context) : StartsWith(k, ctxOut.context[i].iri)

-----------------------------------------------------------------------------
(* expand, keyExpansion *)

\* An object given to expand: its "@context" entry (kind "absent", "list" of URLs,
\* "str" for one URL, "null") and its other entries d, key -> value. A value is a
\* string s ("[]" standing for an empty list); expanded marks the library's
\* expanded form of it.
Raw(s) == [expanded |-> FALSE, s |-> s]
Expanded(v) == [expanded |-> TRUE, s |-> v.s]

\* bool(v)
Truthy(v) == v.s # "[]" /\ (v.expanded \/ v.s # "")

Url1 == <<"h", ":", "/", "/", "s">>
Url2 == <<"h", ":", "/", "/", "p">>
ContextUrls == {Url1, Url2}

Key_px == <<"p", ":", "x">>
Key_custom == <<"c", "u", "s", "t", "o", "m">>
Key_valueconstraints == <<"valueconstraints">>

KEYS_TO_EXPAND ==
    { <<"responseOptions">>, <<"https://schema.repronim.org/valueconstraints">>,
      <<"reproterms:valueconstraints">>, Key_valueconstraints }

\* what the context documents define: Url1 the term "name", Url2 the prefix "p"
TermsOf(url) == IF url = Url1 THEN {K_name} ELSE {}
PrefixesOf(url) == IF url = Url2 THEN {<<"p">>} ELSE {}
TermIri(url, term) == url \o <<"/">> \o term
PrefixIri(url) == url \o <<"/">>

ContextList(obj) == IF obj.ctx.kind \in {"list", "str"} THEN obj.ctx.list ELSE <<>>

\* the key the library expands key k to under the contexts listed; <<>> when the
\* term is undefined and the key is dropped
ExpandedKey(k, urls) ==
    LET pieces == SplitOn(k, ":", 1, <<>>) IN
    IF \E u \in urls : k \in TermsOf(u)
    THEN TermIri(CHOOSE u \in urls : k \in TermsOf(u), k)
    ELSE IF Contains(k, ":")
    THEN IF \E u \in urls : Head(pieces) \in PrefixesOf(u)
         THEN PrefixIri(CHOOSE u \in urls : Head(pieces) \in PrefixesOf(u))
                 \o JoinWith(Tail(pieces), ":")
         ELSE k
    ELSE <<>>

\* jsonld.expand(obj): the first context URL that cannot be loaded raises a
\* ContextUrlError naming it; illegal JSON-LD raises another JsonLdError; otherwise
\* the list of the expanded node, empty when nothing is left of it
LibExpand(obj, env) ==
    LET urls == ContextList(obj)
        bad == {i \in 1..Len(urls) : urls[i] \in env.unreachable}
        kept == {k \in DOMAIN obj.d : ExpandedKey(k, Range(urls)) # <<>>}
        node == [j \in {ExpandedKey(k, Range(urls)) : k \in kept} |->
                    Expanded(obj.d[CHOOSE k \in kept : ExpandedKey(k, Range(urls)) = j])]
    IN  IF bad # {}
        THEN [error |-> "ContextUrlError",
              url |-> urls[CHOOSE i \in bad : \A j \in bad : i <= j], nodes |-> <<>>]
        ELSE IF env.illegal THEN [error |-> "other", url |-> <<>>, nodes |-> <<>>]
        ELSE [error |-> "none", url |-> <<>>,
              nodes |-> IF kept = {} THEN <<>> ELSE <<node>>]

keyExpansion(keys) ==
    {SplitOn(k, c, 1, <<>>)[Len(SplitOn(k, c, 1, <<>>))] :
        <<k, c>> \in {kc \in keys \X {":", "/"} : Contains(kc[1], kc[2])}}
    \cup {k \in keys : ~Contains(k, ":") /\ ~Contains(k, "/")}

\* what expand returns: None, or an object (its entries d and, when ctx.kind is not
\* "absent", its "@context" entry), or an exception
ReturnNone(obj) == [kind |-> "None", d |-> NoDict, ctx |-> [kind |-> "absent", list |-> <<>>],
                    obj |-> obj]
ReturnObject(d, ctx, obj) == [kind |-> "object", d |-> d, ctx |-> ctx, obj |-> obj]
Raise(obj) == [kind |-> "raised", d |-> NoDict, ctx |-> [kind |-> "absent", list |-> <<>>],
               obj |-> obj]

\* expand(v) for a plain string v: the library cannot load it as a document, which is
\* no ContextUrlError, and expand returns v as it is
ExpandString(v) == v

\* the loop over KEYS_TO_EXPAND; an entry under such a key is a plain string here
ExpandValueConstraints(d) ==
    [k \in DOMAIN d |->
        IF k \in KEYS_TO_EXPAND /\ Truthy(ExpandString(d[k])) THEN ExpandString(d[k])
        ELSE d[k]]

\* expand from the library's result on: the single node unwrapped, its falsy entries
\* dropped, the original entries merged back
AfterExpansion(obj, nodes) ==
    IF Len(nodes) = 1
    THEN LET node == nodes[1]
             truthy == [k \in {j \in DOMAIN node : Truthy(node[j])} |-> node[k]]
             back == {k \in DOMAIN obj.d :
                         Truthy(obj.d[k]) /\ k \notin keyExpansion(DOMAIN truthy)}
             merged == [k \in DOMAIN truthy \cup back |->
                           IF k \in back THEN obj.d[k] ELSE truthy[k]]
             \* "@context" is a key of obj too: a non-empty list or string is truthy
             ctxBack == obj.ctx.kind \in {"list", "str"} /\ obj.ctx.list # <<>>
             final == ExpandValueConstraints(merged)
         IN  IF DOMAIN final = {} /\ ~ctxBack THEN ReturnNone(obj)
             ELSE ReturnObject(final,
                               IF ctxBack THEN obj.ctx ELSE [kind |-> "absent", list |-> <<>>],
                               obj)
    ELSE ReturnNone(obj)

\* obj["@context"] = obj.get('@context', []).remove(invalidContext):
\* list.remove returns None, and that is what is assigned
RemoveBadContext(obj, url) == [obj EXCEPT !.ctx = [kind |-> "null", list |-> <<>>]]

\* expand(obj); removals counts the context URLs removed so far
RECURSIVE expand(_, _, _)
expand(obj, env, removals) ==
    LET lib == LibExpand(obj, env) IN
    IF lib.error = "ContextUrlError"
    THEN IF obj.ctx.kind = "list"
         THEN expand(RemoveBadContext(obj, lib.url), env, removals + 1)
         ELSE [out |-> Raise(obj), removals |-> removals]
    ELSE IF lib.error = "other"
    THEN [out |-> ReturnObject(obj.d, obj.ctx, obj), removals |-> removals]
    ELSE [out |-> AfterExpansion(obj, lib.nodes), removals |-> removals]

ExValues == {Raw("v"), Raw(""), Raw("[]")}

ExKeys == {K_name, Key_px, Key_custom, Key_valueconstraints}

ExContexts ==
    { [kind |-> "absent", list |-> <<>>], [kind |-> "null", list |-> <<>>],
      [kind |-> "str", list |-> <<Url1>>], [kind |-> "list", list |-> <<>>],
      [kind |-> "list", list |-> <<Url1>>], [kind |-> "list", list |-> <<Url2>>],
      [kind |-> "list", list |-> <<Url1, Url2>>], [kind |-> "list", list |-> <<Url2, Url1>>] }

ExObjects ==
    {[ctx |-> c, d |-> d] :
        c \in ExContexts, d \in UNION {[S -> ExValues] : S \in SUBSET ExKeys}}

ExEnvs == [unreachable : SUBSET ContextUrls, illegal : BOOLEAN]

NoExObject == [ctx |-> [kind |-> "absent", list |-> <<>>], d |-> NoDict]

NoExOut == [out |-> ReturnNone(NoExObject), removals |-> 0, given |-> NoExObject]

ExIdle ==
    /\ exObj = NoExObject
    /\ exEnv = [unreachable |-> {}, illegal |-> FALSE]
    /\ exOut = NoExOut
    /\ exPc = "idle"

ExInit ==
    /\ exObj \in ExObjects
    /\ exEnv \in ExEnvs
    /\ exOut = NoExOut
    /\ exPc = "call"

Expand ==
    /\ exPc = "call"
    /\ LET r == expand(exObj, exEnv, 0) IN
          /\ exOut' = [out |-> r.out, removals |-> r.removals, given |-> exObj]
          /\ exObj' = r.out.obj
    /\ exPc' = "done"
    /\ UNCHANGED <<exEnv, storeVars, caseVars, langVars, ctxVars, fmtVars, impVars>>

\* the entries of list q that are in set S, in their order
RECURSIVE Filter(_, _)
Filter(q, S) ==
    IF q = <<>> THEN <<>>
    ELSE (IF Head(q) \in S THEN <<Head(q)>> ELSE <<>>) \o Filter(Tail(q), S)

\* C6: when the object's @context list names context URLs that cannot be loaded,
\* expand takes exactly those out of the list, one per retry, keeps the other
\* entries, and returns what expanding the object with the remaining contexts gives.
C6_OnlyBadContextsRemoved ==
    LET given == exOut.given
        good == Filter(given.ctx.list, ContextUrls \ exEnv.unreachable)
    IN  (exPc = "done" /\ given.ctx.kind = "list" /\ good # given.ctx.list) =>
            /\ exOut.out.kind # "raised"
            /\ exObj.ctx = [kind |-> "list", list |-> good]
            /\ exOut.removals = Len(given.ctx.list) - Len(good)
            /\ exOut.out = expand([given EXCEPT !.ctx.list = good], exEnv, 0).out

\* C11: when the library expansion succeeds with a dict, an original key k with a
\* truthy value is copied back into the result under its own name exactly when k,
\* stripped of its namespace prefix, differs from every result key stripped of its
\* namespace prefix.
C11_MergedBackIffNoCounterpart ==
    LET lib == LibExpand(exObj, exEnv)
        node == lib.nodes[1]
        resultKeys == {j \in DOMAIN node : Truthy(node[j])}
    IN  (exPc = "done" /\ lib.error = "none" /\ Len(lib.nodes) = 1) =>
            \A k \in DOMAIN exObj.d :
                Truthy(exObj.d[k]) =>
                    ((k \in DOMAIN exOut.out.d /\ exOut.out.d[k] = exObj.d[k])
                        <=> keyExpansion({k}) \cap keyExpansion(resultKeys) = {})

-----------------------------------------------------------------------------
(* formatLdObject *)

P_applet == <<"a", "p", "p", "l", "e", "t">>
P_activitySet == <<"a", "c", "t", "i", "v", "i", "t", "y", "S", "e", "t">>
P_activity_set == <<"a", "c", "t", "i", "v", "i", "t", "y", "_", "s", "e", "t">>
P_screen == <<"s", "c", "r", "e", "e", "n">>

\* A formatted applet or cached content: whether it has an "applet" entry, the
\* responseDates of that entry ("absent" when it has none) and its
\* prov:generatedAtTime ("absent" when it has none)
Content(hasApplet, responseDates, generated) ==
    [hasApplet |-> hasApplet, responseDates |-> responseDates, generated |-> generated]

NoContent == Content(FALSE, "absent", "absent")

\* A document: kind "dict" with its 'meta', '_id' and 'cached' keys, or kind "list",
\* "None", or "other" for any other value
Doc(kind, hasMeta, hasId, hasCached, cached) ==
    [kind |-> kind, hasMeta |-> hasMeta, hasId |-> hasId, hasCached |-> hasCached,
     cached |-> cached]

\* What formatLdObject returns: None, the cached content, a formatted applet, an
\* activitySet, an expanded object or a list
Ret(kind, val) == [kind |-> kind, val |-> val]

\* one attempt met: whether expand raises, what formatting the applet's activitySet
\* gives ("ok", "None", or "raise" when it cannot be fetched), whether the component
\* imports of an activitySet fail, whether the save raises, and the response dates
\* found ("raise" when the lookup raises)
FormatEnvs ==
    [expandRaises : BOOLEAN, activitySet : {"ok", "None", "raise"},
     importFails : BOOLEAN, saveRaises : BOOLEAN, dates : {"raise", "dates"}]

\* a variant that never uses the cache
UseCache_never(doc, refreshCache) == FALSE

\* "cached" in obj and not refreshCache
UseCache(doc, refreshCache) == doc.hasCached /\ ~refreshCache

\* the try block at the end: returnObj["applet"]["responseDates"] = responseDateList(..)
\* when responseDates and mesoPrefix == "applet"; any exception in it is passed over
WithResponseDates(content, mesoPrefix, args, env) ==
    IF args.responseDates /\ mesoPrefix = P_applet /\ content.hasApplet
          /\ args.hasUser /\ env.dates # "raise"
    THEN [content EXCEPT !.responseDates = env.dates]
    ELSE content

Done(ret, doc, db, did) == [raised |-> FALSE, ret |-> ret, doc |-> doc, db |-> db, did |-> did]
Raised(doc, db, did) ==
    [raised |-> TRUE, ret |-> Ret("None", NoContent), doc |-> doc, db |-> db, did |-> did]

Did(expands, fetches, saves) == [expands |-> expands, fetches |-> fetches, saves |-> saves]

\* the body of the try block, for document doc in memory and db in the database
FormatBody(doc, db, args, refreshCache, env) ==
    LET prefix == camelCase(args.mesoPrefix)
        applet == Content(TRUE, "absent", "absent")
        cachedDoc == [doc EXCEPT !.hasCached = TRUE,
                                 !.cached = Content(TRUE, "absent", "now")]
        shown == WithResponseDates(applet, prefix, args, env)
        \* the "applet" entry is shared by the value returned and obj["cached"]
        sharedDoc == [cachedDoc EXCEPT !.cached.responseDates = shown.responseDates]
    IN  IF doc.kind = "None" \/ (doc.kind = "dict" /\ ~doc.hasMeta)
        THEN Done(Ret("None", NoContent), doc, db, Did(0, 0, 0))
        ELSE IF doc.kind = "other" THEN Raised(doc, db, Did(0, 0, 0))
        ELSE IF doc.kind = "dict" /\ UseCache(doc, refreshCache)
        THEN LET content == WithResponseDates(doc.cached, args.mesoPrefix, args, env) IN
             \* returnObj is obj["cached"] itself
             Done(Ret("cached", content), [doc EXCEPT !.cached = content], db, Did(0, 0, 0))
        ELSE IF doc.kind = "list" THEN Done(Ret("list", NoContent), doc, db, Did(0, 0, 0))
        ELSE IF env.expandRaises THEN Raised(doc, db, Did(1, 0, 0))
        ELSE IF ~doc.hasId THEN Raised(doc, db, Did(1, 0, 0))
        ELSE IF prefix = P_applet
        THEN IF env.activitySet # "ok" THEN Raised(doc, db, Did(1, 1, 0))
             ELSE IF env.saveRaises THEN Raised(cachedDoc, db, Did(1, 1, 1))
             ELSE Done(Ret("applet", shown), sharedDoc, cachedDoc, Did(1, 1, 1))
        ELSE IF prefix = P_activitySet
        THEN IF env.importFails THEN Raised(doc, db, Did(1, 1, 0))
             ELSE Done(Ret("activitySet", NoContent), doc, db, Did(1, 1, 0))
        ELSE Done(Ret("expanded", NoContent), doc, db, Did(1, 0, 0))

\* a variant of the handler that gives up at once
RetryOnException_never(refreshCache) == FALSE

\* the except clause: if refreshCache==False, the call is made again with
\* refreshCache=True
RetryOnException(refreshCache) == refreshCache = FALSE

FormatDocs ==
    {Doc("dict", m, i, FALSE, NoContent) : m \in BOOLEAN, i \in BOOLEAN}
        \cup {Doc("dict", TRUE, TRUE, TRUE, Content(a, "absent", "before")) : a \in BOOLEAN}
        \cup {Doc("list", FALSE, FALSE, FALSE, NoContent),
              Doc("None", FALSE, FALSE, FALSE, NoContent),
              Doc("other", FALSE, FALSE, FALSE, NoContent)}

FormatArgs ==
    [mesoPrefix : {P_applet, P_activity_set, P_screen}, refreshCache : BOOLEAN,
     responseDates : BOOLEAN, hasUser : BOOLEAN]

NoArgs == [mesoPrefix |-> <<>>, refreshCache |-> FALSE, responseDates |-> FALSE,
           hasUser |-> FALSE]

NoLog ==
    [attempts |-> 0, raisedIn |-> <<>>, did |-> Did(0, 0, 0), returned |-> FALSE,
     ret |-> Ret("None", NoContent), docBefore |-> Doc("None", FALSE, FALSE, FALSE, NoContent),
     dbBefore |-> Doc("None", FALSE, FALSE, FALSE, NoContent)]

FmtIdle ==
    /\ fDb = Doc("None", FALSE, FALSE, FALSE, NoContent)
    /\ fDoc = Doc("None", FALSE, FALSE, FALSE, NoContent)
    /\ fArgs = NoArgs
    /\ fRefresh = FALSE
    /\ fPc = "off"
    /\ fLog = NoLog
    /\ fCalls = 0

FmtInit ==
    /\ fDb \in FormatDocs
    /\ fDoc = fDb
    /\ fArgs = NoArgs
    /\ fRefresh = FALSE
    /\ fPc = "idle"
    /\ fLog = NoLog
    /\ fCalls = 0

\* formatLdObject is called on the document as loaded from the database
FormatCall ==
    /\ fPc \in {"idle", "done"}
    /\ fCalls < MaxFormatCalls
    /\ \E args \in FormatArgs :
          /\ fArgs' = args
          /\ fRefresh' = args.refreshCache
    /\ fDoc' = fDb
    /\ fPc' = "body"
    /\ fLog' = [NoLog EXCEPT !.docBefore = fDb, !.dbBefore = fDb]
    /\ fCalls' = fCalls + 1
    /\ UNCHANGED <<fDb, storeVars, caseVars, langVars, ctxVars, exVars, impVars>>

\* one run of the try block: it returns, or raises into the except clause
FormatAttempt ==
    /\ fPc = "body"
    /\ \E env \in FormatEnvs :
          LET r == FormatBody(fDoc, fDb, fArgs, fRefresh, env) IN
          /\ fDoc' = r.doc
          /\ fDb' = r.db
          /\ fPc' = IF r.raised THEN "except" ELSE "done"
          /\ fLog' = [fLog EXCEPT
                         !.attempts = @ + 1,
                         !.raisedIn = IF r.raised THEN Append(@, fRefresh) ELSE @,
                         !.did = Did(@.expands + r.did.expands, @.fetches + r.did.fetches,
                                     @.saves + r.did.saves),
                         !.returned = ~r.raised,
                         !.ret = r.ret]
    /\ UNCHANGED <<fArgs, fRefresh, fCalls, storeVars, caseVars, langVars, ctxVars, exVars, impVars>>

\* the except clause: the retry with refreshCache=True, or the fall through that
\* returns None
FormatExcept ==
    /\ fPc = "except"
    /\ IF RetryOnException(fRefresh)
       THEN /\ fRefresh' = TRUE
            /\ fPc' = "body"
            /\ UNCHANGED fLog
       ELSE /\ fPc' = "done"
            /\ fLog' = [fLog EXCEPT !.returned = TRUE, !.ret = Ret("None", NoContent)]
            /\ UNCHANGED fRefresh
    /\ UNCHANGED <<fDb, fDoc, fArgs, fCalls, storeVars, caseVars, langVars, ctxVars, exVars, impVars>>

\* the call made was one with refreshCache false on a document that has a cached key
CachedCallDone ==
    /\ fPc = "done"
    /\ ~fArgs.refreshCache
    /\ fLog.docBefore.kind = "dict"
    /\ fLog.docBefore.hasCached

\* C4 as stated: a call with refreshCache false on a document that has a cached key
\* returns that cached content, expands, dereferences and saves nothing, and leaves
\* the document, its cached value included, as it was before the call.
C4_CachedCallChangesNothing ==
    CachedCallDone =>
        /\ fLog.ret = Ret("cached", fLog.docBefore.cached)
        /\ fLog.did = Did(0, 0, 0)
        /\ fDoc = fLog.docBefore
        /\ fDb = fLog.dbBefore

\* C4 amended: such a call returns the document's cached value, expands, dereferences
\* and saves nothing and leaves the database copy as it was; the document in memory
\* and the content returned are as before the call, except that with responseDates
\* true and mesoPrefix "applet" the cached value may have gained applet.responseDates.
C4_CachedCallKeepsDatabase ==
    CachedCallDone =>
        /\ fLog.ret = Ret("cached", fDoc.cached)
        /\ fLog.did = Did(0, 0, 0)
        /\ fDb = fLog.dbBefore
        /\ IF fArgs.responseDates /\ fArgs.mesoPrefix = P_applet
           THEN fDoc = [fLog.docBefore EXCEPT
                           !.cached.responseDates = fDoc.cached.responseDates]
           ELSE fDoc = fLog.docBefore

\* C4 witness: a cached call on a cache that an earlier call saved, and that returned
\* it with response dates
C4_CachedCallReturned ==
    /\ CachedCallDone
    /\ fLog.docBefore.cached.generated = "now"
    /\ fLog.ret.val.responseDates = "dates"

\* C5 as stated: every call in which an attempt raised made exactly one retry, with
\* refreshCache true, and returned None if the retry raised too; every call returned.
C5_EveryFailureRetriedOnce ==
    fPc = "done" =>
        /\ fLog.returned
        /\ fLog.attempts = IF fLog.raisedIn = <<>> THEN 1 ELSE 2
        /\ fLog.attempts = 2 => fRefresh
        /\ Len(fLog.raisedIn) = 2 => fLog.ret.kind = "None"

\* C5 amended: a call made with refreshCache false in which the attempt raised made
\* exactly one retry, with refreshCache true; a call made with refreshCache true made
\* no retry; a call whose every attempt raised returned None; every call returned.
C5_FailureRetriedOnceUnlessRefreshing ==
    fPc = "done" =>
        /\ fLog.returned
        /\ fLog.attempts =
              IF fLog.raisedIn # <<>> /\ ~fArgs.refreshCache THEN 2 ELSE 1
        /\ fLog.attempts = 2 => fRefresh /\ Head(fLog.raisedIn) = FALSE
        /\ Len(fLog.raisedIn) <= fLog.attempts
        /\ Len(fLog.raisedIn) = fLog.attempts => fLog.ret.kind = "None"

\* C5 witness: a call whose attempt raised and whose retry raised too
C5_RetryFailedToo ==
    /\ fPc = "done"
    /\ fLog.attempts = 2
    /\ Len(fLog.raisedIn) = 2

-----------------------------------------------------------------------------
(* formatLdObject, the activitySet branch, and componentImport *)

\* The components: activities A and B, screens S and T; Root is the activitySet
Root == "root"
Activities == {"A", "B"}
Screens == {"S", "T"}
Components == Activities \cup Screens

\* the list that componentImport files a component in
ComponentList(c) == IF c \in Screens THEN "items" ELSE "activities"

\* The local variable activitySet: a dict with its 'activitySet' entry and the keys
\* of its 'activities' and 'items' in insertion order, or None
ActivitySet(hasSet, acts, its) ==
    [kind |-> "dict", hasSet |-> hasSet, activities |-> acts, items |-> its]
NoneSet == [kind |-> "None", hasSet |-> FALSE, activities |-> <<>>, items |-> <<>>]
\* {}
EmptySet == ActivitySet(FALSE, <<>>, <<>>)

\* d[key] = value on a dict whose keys are listed in insertion order
SetKey(keys, key) == IF key \in Range(keys) THEN keys ELSE Append(keys, key)

\* the loops of componentImport over the order list: each component is imported,
\* formatted and filed under its key; any failure on the way returns None
RECURSIVE importOrder(_, _, _)
importOrder(order, aset, broken) ==
    IF order = <<>> THEN aset
    ELSE IF Head(order) \in broken THEN NoneSet
    ELSE importOrder(Tail(order),
                     IF ComponentList(Head(order)) = "items"
                     THEN [aset EXCEPT !.items = SetKey(@, Head(order))]
                     ELSE [aset EXCEPT !.activities = SetKey(@, Head(order))],
                     broken)

\* componentImport(obj, activitySet): activitySet.copy() is outside the try block and
\* raises on None
componentImport(order, aset, broken) ==
    IF aset.kind = "None" THEN [raised |-> TRUE, set |-> aset]
    ELSE [raised |-> FALSE, set |-> importOrder(order, aset, broken)]

\* a variant that takes every key for new
NewKeys_all(keys, now) == Range(keys)

\* set(activitySet.get(..).keys()) - activitiesNow
NewKeys(keys, now) == Range(keys) \ now

Loop(newActivities, newItems, activitiesNow, rest) ==
    [newActivities |-> newActivities, newItems |-> newItems,
     activitiesNow |-> activitiesNow, rest |-> rest]

ImportGraphs ==
    [root : {<<>>, <<"A">>, <<"S">>, <<"A", "S">>},
     A : {<<>>, <<"B">>, <<"S">>, <<"B", "S">>},
     B : {<<>>, <<"A">>, <<"T">>},
     S : {<<>>, <<"T">>, <<"B">>},
     T : {<<>>}]

BrokenSets == {{}, {"B"}, {"S"}, {"T"}}

ImpIdle ==
    /\ impGraph = [root |-> <<>>, A |-> <<>>, B |-> <<>>, S |-> <<>>, T |-> <<>>]
    /\ impBroken = {}
    /\ impSet = NoneSet
    /\ impLoop = Loop({}, {}, {}, <<>>)
    /\ impDone = {}
    /\ impPc = "off"

ImpInit ==
    /\ impGraph \in ImportGraphs
    /\ impBroken \in BrokenSets
    /\ impSet = NoneSet
    /\ impLoop = Loop({}, {}, {}, <<>>)
    /\ impDone = {}
    /\ impPc = "start"

ImpOthers == <<storeVars, caseVars, langVars, ctxVars, exVars, fmtVars>>

\* one componentImport call of a for loop, on the next entry of the loop's snapshot
ImportNext ==
    LET r == componentImport(impGraph[Head(impLoop.rest)], impSet, impBroken) IN
    /\ impPc' = IF r.raised THEN "raised" ELSE impPc
    /\ impSet' = r.set
    /\ impDone' = impDone \cup Range(r.set.activities) \cup Range(r.set.items)
    /\ impLoop' = [impLoop EXCEPT !.rest = Tail(@)]

\* the first import and the new keys after it
ImportFirst ==
    /\ impPc = "start"
    /\ LET r == componentImport(impGraph[Root], ActivitySet(TRUE, <<>>, <<>>), impBroken)
           \* activitySet = {} if activitySet is None else activitySet
           aset == IF r.set.kind = "None" THEN EmptySet ELSE r.set
       IN  /\ impSet' = aset
           /\ impDone' = Range(r.set.activities) \cup Range(r.set.items)
           /\ impLoop' = Loop(NewKeys(aset.activities, {}), NewKeys(aset.items, {}), {}, <<>>)
    /\ impPc' = "whileActivities"
    /\ UNCHANGED <<impGraph, impBroken, ImpOthers>>

\* while(len(newActivities))
WhileActivities ==
    /\ impPc = "whileActivities"
    /\ IF impLoop.newActivities # {}
       THEN /\ impPc' = "for1"
            /\ impLoop' = [impLoop EXCEPT !.rest = impSet.activities]
       ELSE /\ impPc' = "whileItems"
            /\ UNCHANGED impLoop
    /\ UNCHANGED <<impGraph, impBroken, impSet, impDone, ImpOthers>>

\* the first for loop over the activities, then activitiesNow
ForActivitiesFirst ==
    /\ impPc = "for1"
    /\ IF impLoop.rest # <<>> THEN ImportNext
       ELSE /\ UNCHANGED <<impSet, impDone>>
            /\ IF impSet.kind = "None"
               THEN impPc' = "raised" /\ UNCHANGED impLoop
               ELSE /\ impPc' = "for2"
                    /\ impLoop' = [impLoop EXCEPT !.activitiesNow = Range(impSet.activities),
                                                  !.rest = impSet.activities]
    /\ UNCHANGED <<impGraph, impBroken, ImpOthers>>

\* the second for loop over the activities, then newActivities
ForActivitiesSecond ==
    /\ impPc = "for2"
    /\ IF impLoop.rest # <<>> THEN ImportNext
       ELSE /\ UNCHANGED <<impSet, impDone>>
            /\ IF impSet.kind = "None"
               THEN impPc' = "raised" /\ UNCHANGED impLoop
               ELSE /\ impPc' = "whileActivities"
                    /\ impLoop' = [impLoop EXCEPT
                           !.newActivities = NewKeys(impSet.activities, impLoop.activitiesNow)]
    /\ UNCHANGED <<impGraph, impBroken, ImpOthers>>

\* while(len(newItems)), and return(activitySet) after it
WhileItems ==
    /\ impPc = "whileItems"
    /\ IF impLoop.newItems # {}
       THEN /\ impPc' = "forItems"
            /\ impLoop' = [impLoop EXCEPT !.activitiesNow = Range(impSet.items),
                                          !.rest = impSet.items]
       ELSE /\ impPc' = "returned"
            /\ UNCHANGED impLoop
    /\ UNCHANGED <<impGraph, impBroken, impSet, impDone, ImpOthers>>

\* the for loop over the items, then newItems
ForItems ==
    /\ impPc = "forItems"
    /\ IF impLoop.rest # <<>> THEN ImportNext
       ELSE /\ UNCHANGED <<impSet, impDone>>
            /\ IF impSet.kind = "None"
               THEN impPc' = "raised" /\ UNCHANGED impLoop
               ELSE /\ impPc' = "whileItems"
                    /\ impLoop' = [impLoop EXCEPT
                           !.newItems = NewKeys(impSet.items, impLoop.activitiesNow)]
    /\ UNCHANGED <<impGraph, impBroken, ImpOthers>>

\* the keys of 'activities' and 'items' in the local variable activitySet
ImportedKeys == Range(impSet.activities) \cup Range(impSet.items)

\* C12: when every import succeeds, the result returned for an activitySet is closed
\* under component references: every component in the order of the activitySet or of
\* a component in 'activities' or 'items' is itself a key of 'activities' or 'items'.
C12_ClosedUnderReferences ==
    (impPc = "returned" /\ impBroken = {}) =>
        /\ Range(impGraph[Root]) \subseteq ImportedKeys
        /\ \A k \in ImportedKeys : Range(impGraph[k]) \subseteq ImportedKeys

\* the components that can be reached from the components in set S by n more
\* steps along the order lists
RECURSIVE ReachedFrom(_, _)
ReachedFrom(S, n) ==
    IF n = 0 THEN S
    ELSE ReachedFrom(S \cup UNION {Range(impGraph[c]) : c \in S}, n - 1)

\* the reference graph of the activitySet has a cycle
HasCycle ==
    \E c \in ReachedFrom(Range(impGraph[Root]), Cardinality(Components)) :
        c \in ReachedFrom(Range(impGraph[c]), Cardinality(Components))

\* C13 as stated: formatting an activitySet whose reference graph has a cycle never
\* returns.
C13_CycleNeverReturns == HasCycle => impPc # "returned"

\* C13 amended: formatting an activitySet whose reference graph has a cycle always
\* comes to an end, and when every import succeeds it returns.
C13_CycleTerminates ==
    /\ HasCycle ~> (impPc \in {"returned", "raised"})
    /\ (HasCycle /\ impBroken = {}) ~> (impPc = "returned")

\* C13 witness: the call has returned for a graph with a cycle, all imports succeeding
C13_CyclicGraphReturned == HasCycle /\ impBroken = {} /\ impPc = "returned"

\* C14: a failure inside componentImport never makes the activitySet branch raise,
\* and the components that earlier imports returned are keys of the result returned.
C14_ImportFailureCoerced ==
    /\ impPc # "raised"
    /\ impPc = "returned" => impDone \subseteq ImportedKeys

createResponseItem ==
    /\ calls < MaxCalls
    /\ \E caller \in CallerInputs, metadata \in MetadataInputs, t \in Times :
        LET informant == caller[1]
            subject_id == caller[2]
            r == CreateResponseItem(folders, items, nextId, informant, subject_id,
                                    metadata, t)
        IN  /\ folders' = r.folders
            /\ items' = r.items
            /\ nextId' = r.nextId
            /\ created' = IF r.raised THEN created ELSE created + 1
            /\ last' = [NoCall EXCEPT !.op = "create", !.user = informant,
                           !.subject_id = subject_id, !.metadata = metadata,
                           !.foldersBefore = folders, !.itemsBefore = items,
                           !.raised = r.raised, !.item = r.item]
    /\ calls' = calls + 1
    /\ UNCHANGED <<caseVars, langVars, ctxVars, exVars, fmtVars, impVars>>

getResponses ==
    /\ calls < MaxCalls
    /\ \E userId \in Users \cup {0}, appletId \in {AppletId, IdStr(0)} :
        LET rf == ResponsesFolderOf(folders, userId)
            children == IF rf = {} THEN {}
                        ELSE {f.id : f \in ChildFolders(folders, "folder",
                                                       (CHOOSE f \in rf : TRUE).id)}
        IN  \E order \in (IF rf = {} THEN {<<>>}
                          ELSE Orders(folders, "folder", (CHOOSE f \in rf : TRUE).id)),
               unreadable \in {{}} \cup {{c} : c \in children} :
            LET r == GetResponses(folders, items, nextId, userId, appletId, order,
                                  unreadable)
            IN  /\ folders' = r.folders
                /\ nextId' = r.nextId
                /\ last' = [NoCall EXCEPT !.op = "get", !.user = userId,
                               !.appletId = appletId,
                               !.foldersBefore = folders, !.itemsBefore = items,
                               !.raised = r.raised, !.hasKey = r.hasKey,
                               !.list = r.list]
    /\ calls' = calls + 1
    /\ UNCHANGED <<items, created>>
    /\ UNCHANGED <<caseVars, langVars, ctxVars, exVars, fmtVars, impVars>>

-----------------------------------------------------------------------------
(* Claims about the response routes *)

\* The folders of the user's Responses folder that match the applet, by legacy name
\* or by meta.applet.@id
LegacyMatches(fs, userId, appletId) ==
    {f \in fs : /\ \E rf \in ResponsesFolderOf(fs, userId) :
                     f.parentType = "folder" /\ f.parent = rf.id
                /\ \E a \in fs : IdStr(a.id) = appletId /\ f.name = a.name}

IdMatches(fs, userId, appletId) ==
    {f \in fs : /\ \E rf \in ResponsesFolderOf(fs, userId) :
                     f.parentType = "folder" /\ f.parent = rf.id
                /\ "applet" \in DOMAIN f.meta
                /\ f.meta["applet"].type = "dict"
                /\ K_id \in DOMAIN f.meta["applet"].d
                /\ f.meta["applet"].d[K_id] = appletId}

\* C1: a getResponses call that returns gives, under appletId, the items of every
\* matching folder: the child items of each legacy-matched folder and the items of
\* every subject folder of each @id-matched folder.
C1_UnionOfMatchingFolders ==
    (last.op = "get" /\ ~last.raised) =>
        /\ \A f \in LegacyMatches(folders, last.user, last.appletId) :
              \A i \in ChildItems(items, f.id) : i.id \in Range(last.list)
        /\ \A f \in IdMatches(folders, last.user, last.appletId) :
              \A g \in ChildFolders(folders, "folder", f.id) :
                 \A i \in ChildItems(items, g.id) : i.id \in Range(last.list)

\* The label the claims give to a metadata value
ClaimedLabel(metadata, field, unknown) ==
    IF field \notin DOMAIN metadata THEN unknown
    ELSE LET v == metadata[field] IN
         IF v.type = "str" THEN v.s
         ELSE IF K_id \in DOMAIN v.d THEN v.d[K_id]
         ELSE IF K_prefLabel \in DOMAIN v.d THEN v.d[K_prefLabel]
         ELSE IF K_name \in DOMAIN v.d THEN v.d[K_name]
         ELSE unknown

\* The folders at path Responses/<applet>/<subject> under user u
PathFolders(fs, u, applet, subject) ==
    {sf \in fs : \E rf \in ResponsesFolderOf(fs, u), af \in fs :
        /\ af.parentType = "folder" /\ af.parent = rf.id /\ af.name = applet
        /\ sf.parentType = "folder" /\ sf.parent = af.id /\ sf.name = subject}

\* C2: the store holds at most one folder per (parent, name); a createResponseItem
\* call whose folder path was there already adds no folder; and the items the route
\* made are as many as its calls that returned.
C2_FoldersReusedItemsCounted ==
    /\ \A f, g \in folders :
          (f.parentType = g.parentType /\ f.parent = g.parent /\ f.name = g.name)
              => f = g
    /\ (last.op = "create" /\ ~last.raised
          /\ PathFolders(last.foldersBefore, last.user,
                         ClaimedLabel(last.metadata, "applet", UnknownApplet),
                         SubjectOf(last.user, last.subject_id)) # {})
          => folders = last.foldersBefore
    /\ Cardinality({i \in items : i.id >= FirstFreeId}) = created
    /\ (last.op = "create" /\ ~last.raised)
          => Cardinality(items) = Cardinality(last.itemsBefore) + 1

C2_RepeatedCall ==
    /\ last.op = "create" /\ ~last.raised /\ created = 2
    /\ folders = last.foldersBefore
    /\ \E i \in last.itemsBefore : i.meta = last.metadata /\ i.creator = last.user

\* C3: every createResponseItem call returns an item that lies in
\* Responses/<applet label>/<subject_id> under the caller and whose description
\* starts with the activity label, the labels being those of the fallback chain.
C3_ItemUnderLabelledPath ==
    last.op = "create" =>
        /\ ~last.raised
        /\ \E i \in items :
              /\ i.id = last.item
              /\ \E sf \in PathFolders(folders, last.user,
                             ClaimedLabel(last.metadata, "applet", UnknownApplet),
                             SubjectOf(last.user, last.subject_id)) : i.folder = sf.id
              /\ StartsWith(i.description,
                            ClaimedLabel(last.metadata, "activity", UnknownActivity))

\* C10: getResponses raises when the user or the applet folder cannot be loaded, and
\* a getResponses call that raises leaves the folders and the items as they were.
C10_ErrorLeavesStoreUnchanged ==
    last.op = "get" =>
        /\ (last.user \notin Users
              \/ ~\E a \in last.foldersBefore : IdStr(a.id) = last.appletId)
             => last.raised
        /\ last.raised => (folders = last.foldersBefore /\ items = last.itemsBefore)

\* a failure while enumerating: both loads succeeded
C10_EnumerationFailed ==
    /\ last.op = "get" /\ last.raised
    /\ last.user \in Users
    /\ \E a \in last.foldersBefore : IdStr(a.id) = last.appletId

\* C15: a getResponses(userId = U, appletId = A) call that returns, made after U
\* created response items with metadata.applet.@id = A, has an entry for A that
\* holds every one of those items.
C15_CreatedItemReturned ==
    (last.op = "get" /\ ~last.raised) =>
        \A i \in items :
            (/\ i.id >= FirstFreeId
             /\ i.creator = last.user
             /\ "applet" \in DOMAIN i.meta
             /\ i.meta["applet"] = Obj([j \in {K_id} |-> last.appletId]))
                => (last.hasKey /\ i.id \in Range(last.list))

-----------------------------------------------------------------------------
(* Specifications: the routes on the store, and each utility function on its inputs *)

Init == StoreInit /\ CaseIdle /\ LangIdle /\ CtxIdle /\ ExIdle /\ FmtIdle /\ ImpIdle

Next == createResponseItem \/ getResponses

Spec == Init /\ [][Next]_vars

InitCase == StoreIdle /\ CaseInit /\ LangIdle /\ CtxIdle /\ ExIdle /\ FmtIdle /\ ImpIdle

NextCase == ToSnake \/ ToCamel

SpecCase == InitCase /\ [][NextCase]_vars

InitLang == StoreIdle /\ CaseIdle /\ LangInit /\ CtxIdle /\ ExIdle /\ FmtIdle /\ ImpIdle

NextLang == GetByLanguage

SpecLang == InitLang /\ [][NextLang]_vars

InitCtx == StoreIdle /\ CaseIdle /\ LangIdle /\ CtxInit /\ ExIdle /\ FmtIdle /\ ImpIdle

NextCtx == Contextualize

SpecCtx == InitCtx /\ [][NextCtx]_vars

InitEx == StoreIdle /\ CaseIdle /\ LangIdle /\ CtxIdle /\ ExInit /\ FmtIdle /\ ImpIdle

NextEx == Expand

SpecEx == InitEx /\ [][NextEx]_vars

InitFormat == StoreIdle /\ CaseIdle /\ LangIdle /\ CtxIdle /\ ExIdle /\ FmtInit /\ ImpIdle

NextFormat == FormatCall \/ FormatAttempt \/ FormatExcept

SpecFormat == InitFormat /\ [][NextFormat]_vars

InitImport == StoreIdle /\ CaseIdle /\ LangIdle /\ CtxIdle /\ ExIdle /\ FmtIdle /\ ImpInit

NextImport ==
    \/ ImportFirst
    \/ WhileActivities
    \/ ForActivitiesFirst
    \/ ForActivitiesSecond
    \/ WhileItems
    \/ ForItems

SpecImport == InitImport /\ [][NextImport]_vars

\* the interpreter keeps running the call
FairSpecImport == SpecImport /\ WF_vars(NextImport)

====
